---- MODULE Spec2Model ----
(***************************************************************************)
(* Model of the data sharing service's MessageHandler (src/main.py).       *)
(*                                                                         *)
(* The handler is driven by a caller that hands it deliveries              *)
(* (handle_delivery) and runs the backlog sweep (prune_backlog).  Its      *)
(* collaborators are injected: a pod cache that is subscripted with the    *)
(* delivery's pod uid, a publisher, and the channel every delivery acks or *)
(* rejects on.  The channel and the publisher are modelled by the list of  *)
(* calls they received.  A Python exception that leaves a handler method   *)
(* is an outcome of the operation, recorded in `last`.                     *)
(***************************************************************************)
EXTENDS Integers, Sequences, FiniteSets, TLC

\* ------------------------------------------------------------------ bounds

\* Number of deliveries the broker hands to the handler in one behaviour.
MaxDeliveries == 2

\* ------------------------------------------------------------ text values

\* A Python str is a sequence of tokens; "/" and ":" are tokens of their own,
\* so that str.split can be computed.
Str(s) == <<s>>

\* s.split(sep)[-1]: the part of s after its last sep (all of s without one).
SplitLast(s, sep) ==
    IF \E i \in 1..Len(s) : s[i] = sep
    THEN LET i == CHOOSE j \in 1..Len(s) :
                      /\ s[j] = sep
                      /\ \A k \in (j+1)..Len(s) : s[k] # sep
         IN  SubSeq(s, i + 1, Len(s))
    ELSE s

\* --------------------------------------------------------------- messages

\* wagglemsg.Message(name, value, timestamp, meta); meta maps keys to str.
Message(name, value, timestamp, meta) ==
    [name |-> name, value |-> value, timestamp |-> timestamp, meta |-> meta]

EmptyMeta == [k \in {} |-> Str("")]

\* dict item assignment and lookup on a meta map.
HasKey(meta, k) == k \in DOMAIN meta
SetKey(meta, k, v) ==
    [x \in (DOMAIN meta) \cup {k} |-> IF x = k THEN v ELSE meta[x]]

\* The messages producers send (bodies that decode).
PluginRef == <<"localhost", ":", "5000", "/", "ns", "/", "p", ":", "1.2.3">>

TestMessages ==
    { Message("test", Str("1234"), 1,
              [vsn |-> Str("Z123"), job |-> Str("sure"), task |-> Str("ok")]),
      Message("upload", Str("ignored"), 1,
              [filename |-> Str("hello.txt"), user |-> Str("data")]),
      Message("upload", Str("ignored"), 1,
              [filename |-> Str("hello.txt"), job |-> Str("sage"),
               task |-> Str("testing"), node |-> Str("ffff"),
               plugin |-> PluginRef]) }

\* A body on the wire: bytes that wagglemsg.load decodes to msg, or bytes it
\* raises on (b"{bad data", b"", ...).
NoMessage == Message("", Str(""), 0, EmptyMeta)
BadBody == [valid |-> FALSE, msg |-> NoMessage]
NoBody == [valid |-> FALSE, msg |-> NoMessage]

\* wagglemsg.dump / wagglemsg.load (external codec).
Dump(msg) == [valid |-> TRUE, msg |-> msg]
LoadRaises(body) == ~body.valid
Load(body) == body.msg

Bodies == {BadBody} \cup {Dump(m) : m \in TestMessages}

\* -------------------------------------------------------------- deliveries

\* properties.app_id of a delivery published without one (Python None).
None == "<None>"

RoutingKeys == {"node", "beehive", "all", "other"}
PodUIDs == {None, "", "u1"}

\* The uids a mapping given as pod_cache may hold an entry for: pod uids are
\* never blank.
CacheKeys == {"u1"}

\* Delivery(channel, delivery_tag, routing_key, pod_uid, body), as built by
\* consume_deliveries from the broker's method, properties and body.
Delivery(tag, routing_key, pod_uid, body) ==
    [delivery_tag |-> tag, routing_key |-> routing_key,
     pod_uid |-> pod_uid, body |-> body]

NoDelivery == Delivery(0, "", None, NoBody)

\* properties.user_id of the incoming broker message: the broker-checked
\* name of the publishing user.  consume_deliveries does not copy it into
\* the Delivery.
Users == {"service", "plugin"}

\* ------------------------------------------------------------------- state

VARIABLES
    config,          \* MessageHandlerConfig: node, vsn, upload_publish_name
    pod_cache_type,  \* what the handler was given as pod_cache
    pod_cache,       \* the entries of a mapping given as pod_cache
    backlog,         \* MessageHandler.backlog (a deque)
    calls,           \* calls made on the channel and the publisher, in order
    metrics,         \* the prometheus counters and gauges
    ndeliveries,     \* deliveries handed to the handler so far (the last tag)
    last,            \* the last handler operation: its delivery, the user that
                     \* published it, and the exception the operation raised
    clock,           \* the reading of the handler's clock (clock.now())
    updated_at,      \* the clock's reading at the last delivery or pod event
    main_pc,         \* where main() stands in its consume loop
    watcher,         \* where PluginPodEventWatcher.main stands
    events,          \* PluginPodEventWatcher.events (a queue)
    redelivered,     \* deliveries the broker has handed over a second time
    stale,           \* the last delivery tag of the connections closed so far
    watch_state,     \* the pod watcher's stop flag, counters and what became
                     \* of the events of the stream
    mapper,          \* a message given to the mapper and what came back
    lru,             \* PodCache: the redis keys and the memo of lru_cache
    closed,          \* what main()'s ExitStack has closed, in order
    ioloop           \* the connection's event loop: the callbacks scheduled
                     \* on it and the calls made on the channel, by thread

\* A PodCache that has looked nothing up: redis holds every pod's key but
\* that of u1.
NoLru ==
    [memo |-> <<>>, absent |-> {"u1"}, nkeys |-> 0, touches |-> 0,
     time |-> 0, result |-> ""]

\* A connection on which nothing was scheduled and no call was made.
NoLoop == [callbacks |-> <<>>, channel |-> <<>>, invoked |-> 0, ran |-> 0]

\* The pod watcher before its thread has seen anything.
NoWatchState ==
    [stop |-> FALSE, pod_events_total |-> 0, api_exception_total |-> 0,
     seen |-> 0, puts |-> <<>>, drained |-> <<>>, drains |-> 0, redis |-> {}]

\* The state of main()'s loop and of the pod watcher's thread.
loopVars == <<main_pc, watcher, events, redelivered, stale, watch_state>>

\* What the handler, driven on its own, leaves alone.
auxVars == <<clock, updated_at, loopVars, mapper, lru, closed, ioloop>>

vars == <<config, pod_cache_type, pod_cache, backlog, calls, metrics,
          ndeliveries, last, auxVars>>

\* The part of the state the handler's methods read and write, passed
\* through them as one record; exc is the exception in flight ("" for none).
\* fault is the exchange on which basic_publish raises a transport fault
\* ("" when the publisher's connection is sound).  A statement that follows
\* a raise on its path is not executed.
HandlerState ==
    [backlog |-> backlog, calls |-> calls, metrics |-> metrics, exc |-> "",
     fault |-> ""]

Raise(st, exc) == [st EXCEPT !.exc = exc]

Inc(st, metric) ==
    IF st.exc # "" THEN st ELSE [st EXCEPT !.metrics[metric] = @ + 1]

\* -------------------------------------------------- channel and publisher

Call(call, tag, exchange, routing_key, body, delivery_mode) ==
    [call |-> call, tag |-> tag, exchange |-> exchange,
     routing_key |-> routing_key, body |-> body,
     delivery_mode |-> delivery_mode]

\* Delivery.ack: channel.basic_ack(delivery_tag).
Ack(st, d) ==
    IF st.exc # "" THEN st
    ELSE [st EXCEPT !.calls = Append(@, Call("basic_ack", d.delivery_tag, "", "", NoBody, 0))]

\* Delivery.reject: channel.basic_reject(delivery_tag).
Reject(st, d) ==
    IF st.exc # "" THEN st
    ELSE [st EXCEPT !.calls = Append(@, Call("basic_reject", d.delivery_tag, "", "", NoBody, 0))]

\* Publisher.publish(exchange, routing_key, publishing), made while handling
\* delivery d: the recorded tag notes whose publish it is (the broker call
\* carries none).  delivery_mode 0 stands for a Publishing without
\* properties.
Publish(st, d, exchange, routing_key, body, delivery_mode) ==
    IF st.exc # "" THEN st
    ELSE IF st.fault = exchange THEN Raise(st, "AMQPError")
    ELSE [st EXCEPT !.calls = Append(@, Call("basic_publish", d.delivery_tag, exchange,
                                             routing_key, body, delivery_mode))]

\* --------------------------------------------------------------- pod cache

\* self.pod_cache[uid]: the PodCache class defines get() and no __getitem__,
\* so subscripting it raises TypeError; a mapping raises KeyError on a miss
\* and returns the stored value (a pod record or None) on a hit.
PodCacheGetItem(uid) ==
    IF pod_cache_type = "PodCache" THEN "TypeError"
    ELSE IF uid \notin CacheKeys \/ pod_cache[uid] = "missing" THEN "KeyError"
    ELSE pod_cache[uid]

\* ---------------------------------------------------------- upload rewrite

UploadKeys == {"job", "task", "node", "filename", "plugin"}

\* upload_url_for_message raises InvalidMessageError when msg.meta lacks one
\* of the keys it reads.
UploadUrlRaises(msg) == \E k \in UploadKeys : ~HasKey(msg.meta, k)

\* upload_url_for_message: the f-string, with tag = plugin.split(":")[-1].
upload_url_for_message(msg) ==
    LET job == msg.meta["job"]
        task == msg.meta["task"]
        node == msg.meta["node"]
        filename == msg.meta["filename"]
        plugin == msg.meta["plugin"]
        namespace == Str("sage")
        tag == SplitLast(plugin, ":")
    IN  Str("https://storage.sagecontinuum.org/api/v1/data/") \o job \o Str("/")
        \o namespace \o Str("-") \o task \o Str("-") \o tag \o Str("/")
        \o node \o Str("/") \o Str(ToString(msg.timestamp)) \o Str("-") \o filename

convert_to_upload_message(msg, cfg) ==
    Message(cfg.upload_publish_name, upload_url_for_message(msg),
            msg.timestamp, msg.meta)

\* -------------------------------------------------------------- enrichment

\* Pod(uid, name, labels, image, host): the record a pod cache entry holds.
TaskLabel == "sagecontinuum.org/plugin-task"
JobLabel == "sagecontinuum.org/plugin-job"

PodOf(uid) ==
    [uid |-> uid, name |-> Str("plugin-test-abc"),
     labels |-> (TaskLabel :> Str("testing")),
     image |-> <<"ns", "/", "p", ":", "1.2.3">>, host |-> Str("ws-nxcore")]

\* update_message_with_config_metadata: the meta of msg afterwards.
update_message_with_config_metadata(msg, cfg) ==
    [msg EXCEPT !.meta = SetKey(SetKey(@, "node", cfg.node), "vsn", cfg.vsn)]

\* update_message_with_pod_metadata, for a pod that has the task label (it
\* raises InvalidMessageError for one that has not).
update_message_with_pod_metadata(msg, pod) ==
    [msg EXCEPT !.meta =
        SetKey(SetKey(SetKey(SetKey(@,
            "host", pod.host),
            "plugin", SplitLast(pod.image, "/")),
            "job", IF JobLabel \in DOMAIN pod.labels
                   THEN pod.labels[JobLabel] ELSE Str("sage")),
            "task", pod.labels[TaskLabel])]

\* ----------------------------------------------------------------- handler

\* A fan-out that sends a message of scope "all" to the node exchange only.
publish_and_ack_AllToNodeOnly(st, d, msg) ==
    LET body == Dump(msg)
        s1 == IF d.routing_key \in {"node", "all"}
              THEN Publish(st, d, "data.topic", msg.name, body, 0)
              ELSE st
        s2 == IF d.routing_key \in {"beehive"}
              THEN Publish(s1, d, "to-beehive", msg.name, body, 2)
              ELSE s1
    IN  Inc(Ack(s2, d), "published_total")

\* publish_and_ack with the beehive publish sent without properties.
publish_and_ack_BeehiveUnset(st, d, msg) ==
    LET body == Dump(msg)
        s1 == IF d.routing_key \in {"node", "all"}
              THEN Publish(st, d, "data.topic", msg.name, body, 0)
              ELSE st
        s2 == IF d.routing_key \in {"beehive", "all"}
              THEN Publish(s1, d, "to-beehive", msg.name, body, 0)
              ELSE s1
    IN  Inc(Ack(s2, d), "published_total")

\* publish_and_ack with the ack sent before the publishes.
publish_and_ack_AckFirst(st, d, msg) ==
    LET body == Dump(msg)
        s0 == Ack(st, d)
        s1 == IF d.routing_key \in {"node", "all"}
              THEN Publish(s0, d, "data.topic", msg.name, body, 0)
              ELSE s0
        s2 == IF d.routing_key \in {"beehive", "all"}
              THEN Publish(s1, d, "to-beehive", msg.name, body, 2)
              ELSE s1
    IN  Inc(s2, "published_total")

\* publish_and_ack with the second publish sent to the node exchange too.
publish_and_ack_BothToNode(st, d, msg) ==
    LET body == Dump(msg)
        s1 == IF d.routing_key \in {"node", "all"}
              THEN Publish(st, d, "data.topic", msg.name, body, 0)
              ELSE st
        s2 == IF d.routing_key \in {"beehive", "all"}
              THEN Publish(s1, d, "data.topic", msg.name, body, 2)
              ELSE s1
    IN  Inc(Ack(s2, d), "published_total")

\* publish_and_ack with the beehive publish sent before the node publish.
publish_and_ack_BeehiveFirst(st, d, msg) ==
    LET body == Dump(msg)
        s1 == IF d.routing_key \in {"beehive", "all"}
              THEN Publish(st, d, "to-beehive", msg.name, body, 2)
              ELSE st
        s2 == IF d.routing_key \in {"node", "all"}
              THEN Publish(s1, d, "data.topic", msg.name, body, 0)
              ELSE s1
    IN  Inc(Ack(s2, d), "published_total")

\* The end of load_and_publish_message: encode msg, publish it to the
\* exchanges the delivery's routing key selects, ack, count.
publish_and_ack(st, d, msg) ==
    LET body == Dump(msg)
        s1 == IF d.routing_key \in {"node", "all"}
              THEN Publish(st, d, "data.topic", msg.name, body, 0)
              ELSE st
        s2 == IF d.routing_key \in {"beehive", "all"}
              THEN Publish(s1, d, "to-beehive", msg.name, body, 2)
              ELSE s1
    IN  Inc(Ack(s2, d), "published_total")

\* The middle of load_and_publish_message: a message named "upload" is
\* rewritten, which raises InvalidMessageError when it cannot be.
rewrite_and_publish(st, d, loaded) ==
    IF loaded.name = "upload" /\ UploadUrlRaises(loaded)
    THEN Raise(st, "InvalidMessageError")
    ELSE publish_and_ack(st, d,
                         IF loaded.name = "upload"
                         THEN convert_to_upload_message(loaded, config)
                         ELSE loaded)

\* A load_and_publish_message whose decode-failure branch does not return:
\* the delivery is rejected and the handler of the second except clause
\* runs as well.
load_and_publish_message_NoReturn(st, d) ==
    IF LoadRaises(d.body)
    THEN Inc(Ack(Reject(st, d), d), "invalid_total")
    ELSE rewrite_and_publish(st, d, Load(d.body))

\* MessageHandler.load_and_publish_message.  The two update_message_with_*
\* calls stand after the return of the first except block and the second
\* except block belongs to the same try: neither is ever executed, so the
\* decoded message goes on with the meta it arrived with.
load_and_publish_message(st, d) ==
    IF LoadRaises(d.body)
    THEN Reject(st, d)
    ELSE rewrite_and_publish(st, d, Load(d.body))

\* The second half of handle_delivery: look the pod up, then backlog the
\* delivery or publish it.
lookup_and_dispatch(st, d) ==
    LET got == PodCacheGetItem(d.pod_uid) IN
    IF got \in {"TypeError", "KeyError"}
    THEN Raise(st, got)
    ELSE IF got = "None"
    THEN [Inc(Inc(st, "backlogged_total"), "messages_in_backlog")
             EXCEPT !.backlog = Append(@, d)]
    ELSE load_and_publish_message(st, d)

\* A handle_delivery that counts a delivery only once it has a pod uid.
handle_delivery_CountAfterCheck(st, d) ==
    IF d.pod_uid = None
    THEN Reject(Inc(st, "invalid_total"), d)
    ELSE lookup_and_dispatch(Inc(st, "handled_total"), d)

\* MessageHandler.handle_delivery.
handle_delivery(st, d) ==
    LET s0 == Inc(st, "handled_total") IN
    IF d.pod_uid = None
    THEN Reject(Inc(s0, "invalid_total"), d)
    ELSE lookup_and_dispatch(s0, d)

\* BacklogItem(delivery, received_at); the clock's reading at which an item
\* counts as expired in prune_backlog.
BacklogItem(delivery, received_at) ==
    [delivery |-> delivery, received_at |-> received_at]

BacklogExpiry == 30

\* A prune_item that takes the held Delivery for an item and rejects it once
\* the clock reads past the 30 s of prune_backlog.
prune_item_ExpiresHeld(st, now) ==
    LET item == Head(st.backlog)
        s0 == [st EXCEPT !.backlog = Tail(@)]
    IN
    IF now > BacklogExpiry
    THEN Reject(s0, IF "delivery" \in DOMAIN item THEN item.delivery ELSE item)
    ELSE [s0 EXCEPT !.backlog = Append(@, item)]

\* One iteration of the loop of prune_backlog at clock reading now.  The
\* backlog holds what handle_delivery appended, a Delivery, which has no
\* attribute `delivery`: item.delivery raises AttributeError, which neither
\* except clause catches.
prune_item(st, now) ==
    LET item == Head(st.backlog)
        s0 == [st EXCEPT !.backlog = Tail(@)]
    IN
    IF "delivery" \notin DOMAIN item
    THEN Raise(s0, "AttributeError")
    ELSE LET got == PodCacheGetItem(item.delivery.pod_uid)
             s1 == IF got \in {"TypeError", "KeyError"}
                   THEN Raise(s0, got)
                   ELSE load_and_publish_message(s0, item.delivery)
         IN
         IF s1.exc = "InvalidMessageError"
         THEN Reject(Raise(s1, ""), item.delivery)
         ELSE IF s1.exc = "KeyError"
         THEN IF now - item.received_at > BacklogExpiry
              THEN Reject(Raise(s1, ""), item.delivery)
              ELSE [Raise(s1, "") EXCEPT !.backlog = Append(@, item)]
         ELSE s1

\* MessageHandler.prune_backlog: len(backlog) iterations, ended early by an
\* exception.
RECURSIVE prune_loop(_, _, _)
prune_loop(st, n, now) ==
    IF n = 0 \/ st.exc # ""
    THEN st
    ELSE prune_loop(prune_item(st, now), n - 1, now)

prune_backlog(st, now) == prune_loop(st, Len(st.backlog), now)

\* ------------------------------------------------------------- the machine

\* Readings of the injected clock: one before and one past the expiry of an
\* item received at 0.
ClockReadings == {0, BacklogExpiry + 1}

Configs ==
    { [node |-> Str("0000000000000001"), vsn |-> Str("W001"),
       upload_publish_name |-> n] : n \in {"upload", "uploads"} }

\* The handler is driven on its own: the clock stands at 0, main() is
\* consuming, the pod watcher is running, the mapper has been given nothing.
AuxInit ==
    /\ clock = 0
    /\ updated_at = 0
    /\ main_pc = "consuming"
    /\ watcher = "running"
    /\ events = <<>>
    /\ redelivered = 0
    /\ stale = 0
    /\ watch_state = NoWatchState
    /\ lru = NoLru
    /\ closed = <<>>
    /\ ioloop = NoLoop
    /\ mapper = <<>>

Init ==
    /\ AuxInit
    /\ config \in Configs
    /\ pod_cache_type \in {"PodCache", "mapping"}
    /\ pod_cache = [u \in CacheKeys |-> "missing"]
    /\ backlog = <<>>
    /\ calls = <<>>
    /\ metrics = [handled_total |-> 0, invalid_total |-> 0,
                  backlogged_total |-> 0, published_total |-> 0,
                  expired_total |-> 0, pods_expired_total |-> 0,
                  messages_in_backlog |-> 0, pods_in_backlog |-> 0]
    /\ ndeliveries = 0
    /\ last = [op |-> "init", delivery |-> NoDelivery, user_id |-> "",
               exc |-> ""]

\* What a handler method leaves behind, whether it returned or raised.
Becomes(st, op, d, user_id) ==
    /\ backlog' = st.backlog
    /\ calls' = st.calls
    /\ metrics' = st.metrics
    /\ last' = [op |-> op, delivery |-> d, user_id |-> user_id, exc |-> st.exc]

\* The broker hands the next delivery to pika_handler, which calls
\* handler.handle_delivery.
HandleDelivery ==
    /\ ndeliveries < MaxDeliveries
    /\ \E routing_key \in RoutingKeys, pod_uid \in PodUIDs, body \in Bodies,
          user_id \in Users :
          LET d == Delivery(ndeliveries + 1, routing_key, pod_uid, body)
          IN  Becomes(handle_delivery(HandlerState, d), "handle_delivery", d,
                      user_id)
    /\ ndeliveries' = ndeliveries + 1
    /\ UNCHANGED <<config, pod_cache_type, pod_cache, auxVars>>

\* A sweep of the backlog.
PruneBacklog ==
    /\ \E now \in ClockReadings :
          Becomes(prune_backlog(HandlerState, now), "prune_backlog", NoDelivery,
                  "")
    /\ UNCHANGED <<config, pod_cache_type, pod_cache, ndeliveries, auxVars>>

\* The owner of a mapping given as pod_cache stores or removes an entry.
UpdatePodCache ==
    /\ pod_cache_type = "mapping"
    /\ \E u \in CacheKeys, v \in {"missing", "None", "pod"} :
          /\ pod_cache[u] # v
          /\ pod_cache' = [pod_cache EXCEPT ![u] = v]
    /\ UNCHANGED <<config, pod_cache_type, backlog, calls, metrics,
                   ndeliveries, last, auxVars>>

Next == HandleDelivery \/ PruneBacklog \/ UpdatePodCache

Spec == Init /\ [][Next]_vars

\* Under the premise that the periodic sweep keeps being run.
FairSpec == Spec /\ WF_vars(PruneBacklog)

\* ---------------------------------------------------- what the calls show

Tags == 1..ndeliveries

CallsOf(tag, call) ==
    {i \in 1..Len(calls) : calls[i].tag = tag /\ calls[i].call = call}

Acks(tag) == Cardinality(CallsOf(tag, "basic_ack"))
Rejects(tag) == Cardinality(CallsOf(tag, "basic_reject"))

PublishesTo(tag, exchange) ==
    {i \in CallsOf(tag, "basic_publish") : calls[i].exchange = exchange}

Published(tag) == CallsOf(tag, "basic_publish") # {}

NumRejects == Cardinality({i \in 1..Len(calls) : calls[i].call = "basic_reject"})

\* The delivery of the last handler operation and what became of it.
LastTag == last.delivery.delivery_tag
LastAcked == Acks(LastTag) = 1
LastRejected == Rejects(LastTag) = 1
LastPublished == Published(LastTag)
LastMessage == Load(last.delivery.body)

\* The step is a call of handle_delivery; its delivery is last'.delivery.
HandleStep == last'.op = "handle_delivery" /\ ndeliveries' = ndeliveries + 1

\* The step counts one more invalid (rejected) message.
CountsOneRejected == metrics'.invalid_total = metrics.invalid_total + 1

\* The users whose messages are to bypass the application-metadata lookup.
SystemUsers == {"service"}

\* The metadata layers of the merge law.
SystemMeta == update_message_with_config_metadata(NoMessage, config).meta
AppMeta(uid) == update_message_with_pod_metadata(NoMessage, PodOf(uid)).meta

Merged(msgmeta, appmeta, sysmeta) ==
    [k \in (DOMAIN msgmeta) \cup (DOMAIN appmeta) \cup (DOMAIN sysmeta) |->
        IF k \in DOMAIN sysmeta THEN sysmeta[k]
        ELSE IF k \in DOMAIN appmeta THEN appmeta[k]
        ELSE msgmeta[k]]

Scopes == {"node", "beehive", "all"}

\* The handler was given a mapping as its pod cache.
GivenMapping == pod_cache_type = "mapping"

\* --------------------------------------------------------------- claims

\* C1: over any sequence of handler operations, no delivery is acked and
\* rejected, acked twice or rejected twice: ack and reject together are
\* issued at most once per delivery.
C1_SettledAtMostOnce == \A t \in Tags : Acks(t) + Rejects(t) <= 1

\* One delivery was acked, another rejected, and a sweep has run since.
C1_Witness ==
    /\ last.op = "prune_backlog"
    /\ \E t \in Tags : Acks(t) = 1
    /\ \E t \in Tags : Rejects(t) = 1

\* C2: provided the periodic sweep keeps being run, every delivery handed to
\* the handler is eventually acked or rejected, whether it was handled at
\* once or held in the backlog.  (Stated for a handler whose pod cache is a
\* mapping; given the PodCache class, no lookup succeeds at all.)
C2_EventuallySettled ==
    \A t \in 1..MaxDeliveries :
        (GivenMapping /\ ndeliveries >= t) ~> (Acks(t) + Rejects(t) >= 1)

\* C3: the handled-messages counter equals the number of deliveries handed
\* to the handler, whichever path each took, and a later sweep does not
\* count a delivery again.
C3_HandledCountsDeliveries == metrics.handled_total = ndeliveries

\* Two deliveries were received, one rejected and one backlogged, and a sweep
\* has taken the backlogged one out again.
C3_Witness ==
    /\ ndeliveries = 2
    /\ last.op = "prune_backlog"
    /\ metrics.backlogged_total = 1
    /\ backlog = <<>>
    /\ \E t \in Tags : Rejects(t) = 1

\* C4: the rejected-messages counter equals the number of deliveries that
\* were rejected, on whatever path each was rejected.
C4_RejectedCounterCountsRejects == metrics.invalid_total = NumRejects

\* C5: a delivery with no producer uid (app_id absent or blank) from a user
\* that is no system user is rejected, counted as rejected, and published
\* to neither exchange.  (Stated for a handler whose pod cache is a mapping.)
C5_UnidentifiedRejected ==
    [][ ( /\ HandleStep
          /\ GivenMapping
          /\ last'.delivery.pod_uid \in {None, ""}
          /\ last'.user_id \notin SystemUsers )
        => ( /\ LastRejected'
             /\ CountsOneRejected
             /\ ~LastPublished' ) ]_vars

\* C6: a delivery whose body does not decode is rejected, counted as
\* rejected, published to neither exchange, and handling it raises nothing,
\* so that the handler goes on with the next delivery.  (Stated for the
\* deliveries that get as far as being decoded: those whose pod is cached.)
C6_UndecodableRejected ==
    [][ ( /\ HandleStep
          /\ last'.delivery.pod_uid # None
          /\ PodCacheGetItem(last'.delivery.pod_uid) = "pod"
          /\ LoadRaises(last'.delivery.body) )
        => ( /\ LastRejected'
             /\ CountsOneRejected
             /\ ~LastPublished'
             /\ last'.exc = "" ) ]_vars

\* C7: a delivery of a user that is no system user, whose uid has no entry in
\* the metadata source, is rejected within the same call of the handler (it
\* is not held back), the rejected counter goes up by 1, and nothing is
\* published.
C7_MissRejectedAtOnce ==
    [][ ( /\ HandleStep
          /\ last'.delivery.pod_uid \notin {None, ""}
          /\ last'.user_id \notin SystemUsers
          /\ pod_cache_type = "mapping"
          /\ PodCacheGetItem(last'.delivery.pod_uid) = "KeyError" )
        => ( /\ LastRejected'
             /\ CountsOneRejected
             /\ ~LastPublished'
             /\ backlog' = backlog ) ]_vars

\* C8: a delivery of a system user is published without a metadata lookup,
\* even without a producer uid: its outgoing meta is the message's meta
\* overlaid by the system metadata only, and it is acked.  (Stated for the
\* deliveries without a producer uid, whose body decodes to a message that
\* needs no upload rewrite, on a known scope.)
C8_SystemUserPublished ==
    [][ ( /\ HandleStep
          /\ last'.user_id \in SystemUsers
          /\ last'.delivery.pod_uid = None
          /\ ~LoadRaises(last'.delivery.body)
          /\ LastMessage'.name # "upload"
          /\ last'.delivery.routing_key \in Scopes )
        => ( /\ LastAcked'
             /\ LastPublished'
             /\ \A i \in CallsOf(LastTag, "basic_publish")' :
                   Load(calls'[i].body).meta
                       = Merged(LastMessage'.meta, EmptyMeta, SystemMeta) ) ]_vars

\* C9: the meta of every published message obeys the merge law: the system
\* metadata's value for a key it has, else the application metadata's, else
\* the message's own; node and vsn cannot be overridden.
C9_MergeLaw ==
    [][ ( /\ HandleStep
          /\ LastPublished' )
        => \A i \in CallsOf(LastTag, "basic_publish")' :
              Load(calls'[i].body).meta
                  = Merged(LastMessage'.meta,
                           IF PodCacheGetItem(last'.delivery.pod_uid) = "pod"
                           THEN AppMeta(last'.delivery.pod_uid) ELSE EmptyMeta,
                           SystemMeta) ]_vars

\* C10: a delivery that got as far as the fan-out is published according to
\* its scope: to the node exchange once and not to beehive for "node", to
\* beehive once and not to the node exchange for "beehive", once to each for
\* "all"; every publish has the outgoing message's name as routing key.
C10_PublishedPerScope ==
    ( /\ last.op = "handle_delivery"
      /\ last.delivery.routing_key \in Scopes
      /\ LastAcked )
    => /\ Cardinality(PublishesTo(LastTag, "data.topic"))
            = (IF last.delivery.routing_key \in {"node", "all"} THEN 1 ELSE 0)
       /\ Cardinality(PublishesTo(LastTag, "to-beehive"))
            = (IF last.delivery.routing_key \in {"beehive", "all"} THEN 1 ELSE 0)
       /\ \A i \in CallsOf(LastTag, "basic_publish") :
             /\ calls[i].exchange \in {"data.topic", "to-beehive"}
             /\ calls[i].routing_key = Load(calls[i].body).name
             /\ Load(calls[i].body).name
                   = (IF LastMessage.name = "upload"
                      THEN config.upload_publish_name ELSE LastMessage.name)

\* An upload message of scope "all" was rewritten under another name and
\* published to both exchanges.
C10_Witness ==
    /\ last.op = "handle_delivery"
    /\ last.delivery.routing_key = "all"
    /\ LastAcked
    /\ LastMessage.name = "upload"
    /\ config.upload_publish_name # "upload"
    /\ Cardinality(CallsOf(LastTag, "basic_publish")) = 2

\* The delivery handled in this step gets as far as the fan-out: its pod is
\* cached, its body decodes, and an upload message can be rewritten.
ReachesFanOut ==
    /\ HandleStep
    /\ last'.delivery.pod_uid # None
    /\ PodCacheGetItem(last'.delivery.pod_uid) = "pod"
    /\ ~LoadRaises(last'.delivery.body)
    /\ ~(LastMessage'.name = "upload" /\ UploadUrlRaises(LastMessage'))

\* C11: a delivery whose routing key is none of node, beehive, all is
\* rejected and counted as rejected; it is not acked and not counted as
\* published.
C11_UnknownScopeRejected ==
    [][ ( /\ ReachesFanOut
          /\ last'.delivery.routing_key \notin Scopes )
        => ( /\ LastRejected'
             /\ CountsOneRejected
             /\ ~LastAcked'
             /\ metrics'.published_total = metrics.published_total ) ]_vars

\* Indices of the publishes to one exchange, for any delivery.
AllPublishesTo(exchange) ==
    { i \in 1..Len(calls) :
        calls[i].call = "basic_publish" /\ calls[i].exchange = exchange }

C13_AckAfterPublishes ==
    /\ \A t \in Tags :
          \A i \in CallsOf(t, "basic_ack") \cup CallsOf(t, "basic_reject") :
             \A j \in CallsOf(t, "basic_publish") : j < i
    /\ ( /\ last.op = "handle_delivery"
         /\ last.delivery.routing_key \in Scopes
         /\ LastAcked )
       => /\ last.delivery.routing_key \in {"node", "all"}
                => PublishesTo(LastTag, "data.topic") # {}
          /\ last.delivery.routing_key \in {"beehive", "all"}
                => PublishesTo(LastTag, "to-beehive") # {}

\* A delivery of scope "all" was acked after its two publishes.
C13_Witness ==
    /\ last.op = "handle_delivery"
    /\ last.delivery.routing_key = "all"
    /\ \E i \in CallsOf(LastTag, "basic_ack") :
          /\ \E j \in PublishesTo(LastTag, "data.topic") : j < i
          /\ \E j \in PublishesTo(LastTag, "to-beehive") : j < i

\* C14: over any sequence of handler operations, a delivery is published at
\* most once to the node exchange and at most once to the beehive exchange,
\* and a rejected delivery was published to neither.
C14_PublishedAtMostOnce ==
    \A t \in Tags :
        /\ Cardinality(PublishesTo(t, "data.topic")) <= 1
        /\ Cardinality(PublishesTo(t, "to-beehive")) <= 1
        /\ Rejects(t) >= 1 => ~Published(t)

\* One delivery was published to both exchanges, another was rejected, and a
\* sweep has run since.
C14_Witness ==
    /\ last.op = "prune_backlog"
    /\ \E t \in Tags : /\ Cardinality(PublishesTo(t, "data.topic")) = 1
                       /\ Cardinality(PublishesTo(t, "to-beehive")) = 1
    /\ \E t \in Tags : Rejects(t) = 1

\* C20: when a delivery is published to both exchanges (scope "all"), its
\* publish to the node exchange is issued before its publish to the beehive
\* exchange.
C20_NodeBeforeBeehive ==
    \A t \in Tags :
        \A i \in PublishesTo(t, "data.topic") :
            \A j \in PublishesTo(t, "to-beehive") : i < j

\* A plain (non-upload) message of scope "all" went to both exchanges.
C20_Witness ==
    /\ last.op = "handle_delivery"
    /\ last.delivery.routing_key = "all"
    /\ LastMessage.name = "test"
    /\ PublishesTo(LastTag, "data.topic") # {}
    /\ PublishesTo(LastTag, "to-beehive") # {}

\* C15: the node-published counter equals the number of publishes to the
\* node exchange and the beehive-published counter equals the number of
\* publishes to the beehive exchange.  The program defines one published
\* counter, wes_data_service_messages_published_total, and no counter per
\* exchange; it is read here in the place of both.
C15_PublishedCounters ==
    /\ metrics.published_total = Cardinality(AllPublishesTo("data.topic"))
    /\ metrics.published_total = Cardinality(AllPublishesTo("to-beehive"))

\* ------------------------------------------------------- upload deliveries

\* A handler that is given upload messages only, by a pod it has cached.
MaxUploads == 1

\* A meta key that is not there.
Absent == <<>>

WithKey(meta, k, v) == IF v = Absent THEN meta ELSE SetKey(meta, k, v)

\* The plugin references of the upload tests.
PluginRefs ==
    { <<"plugin-test">>,
      <<"plugin-test", ":", "1.2.3">>,
      <<"waggle-sensor", "/", "plugin-test">>,
      <<"waggle-sensor", "/", "plugin-test", ":", "1.2.3">>,
      <<"localhost", ":", "5000", "/", "ns", "/", "p">>,
      PluginRef,
      <<"invalid", "/", "tags", "/", "here", ":", "23", ":", "13">> }

\* The meta of an upload message: what upload_file sends (user, filename)
\* and what a producer or an enrichment may have put beside it.
UploadMetas ==
    { WithKey(WithKey(WithKey(WithKey(WithKey([user |-> Str("data")],
          "filename", f), "job", j), "task", tn[1]), "node", tn[2]),
          "plugin", p) :
        f \in {Absent, Str("hello.txt")},
        j \in {Absent, Str(""), Str("sure")},
        tn \in {<<Absent, Absent>>, <<Str("testing"), Str("ffff")>>},
        p \in PluginRefs \cup {Absent} }

UploadMessages ==
    { Message("upload", Str("ignored"), 1, m) : m \in UploadMetas }
    \cup { Message("uploads", Str("ignored"), 1,
                   [user |-> Str("data"), filename |-> Str("hello.txt"),
                    job |-> Str("sure"), task |-> Str("testing"),
                    node |-> Str("ffff"), plugin |-> PluginRef]) }

UploadInit ==
    /\ AuxInit
    /\ config \in Configs
    /\ pod_cache_type = "mapping"
    /\ pod_cache = [u \in CacheKeys |-> "pod"]
    /\ backlog = <<>>
    /\ calls = <<>>
    /\ metrics = [handled_total |-> 0, invalid_total |-> 0,
                  backlogged_total |-> 0, published_total |-> 0,
                  expired_total |-> 0, pods_expired_total |-> 0,
                  messages_in_backlog |-> 0, pods_in_backlog |-> 0]
    /\ ndeliveries = 0
    /\ last = [op |-> "init", delivery |-> NoDelivery, user_id |-> "",
               exc |-> ""]

\* The broker hands an upload delivery of the cached pod to pika_handler,
\* which calls handler.handle_delivery.
HandleUpload ==
    /\ ndeliveries < MaxUploads
    /\ \E routing_key \in {"beehive", "all"}, msg \in UploadMessages :
          LET d == Delivery(ndeliveries + 1, routing_key, "u1", Dump(msg))
          IN  Becomes(handle_delivery(HandlerState, d), "handle_delivery", d,
                      "plugin")
    /\ ndeliveries' = ndeliveries + 1
    /\ UNCHANGED <<config, pod_cache_type, pod_cache, auxVars>>

UploadNext == HandleUpload

UploadSpec == UploadInit /\ [][UploadNext]_vars

\* ------------------------------------------------- the upload URL, as told

CountSep(s, sep) == Cardinality({i \in 1..Len(s) : s[i] = sep})

\* The tag of a plugin reference: the last "/"-separated segment, split on
\* ":"; one piece gives "latest", two pieces give the second.
ExpectedTag(plugin) ==
    LET segment == SplitLast(plugin, "/")
    IN  IF CountSep(segment, ":") = 0 THEN Str("latest")
        ELSE SplitLast(segment, ":")

\* The last segment of the plugin reference has at most two pieces.
TagIsValid(plugin) == CountSep(SplitLast(plugin, "/"), ":") <= 1

\* The URL of an upload with this meta, under this job.
ExpectedUrl(meta, job, timestamp) ==
    Str("https://storage.sagecontinuum.org/api/v1/data/") \o job \o Str("/")
    \o Str("sage") \o Str("-") \o meta["task"] \o Str("-")
    \o ExpectedTag(meta["plugin"]) \o Str("/")
    \o meta["node"] \o Str("/") \o Str(ToString(timestamp)) \o Str("-")
    \o meta["filename"]

\* The messages published for the last delivery.
LastPublishedMessages ==
    { Load(calls[i].body) : i \in CallsOf(LastTag, "basic_publish") }

\* The merged meta of the last delivery: message, then pod, then system.
LastMerged == Merged(LastMessage.meta, AppMeta(last.delivery.pod_uid), SystemMeta)

\* C16: a delivery whose message is named as the configured upload-publish
\* name and whose merged meta has job, task, node, filename and plugin is
\* published as a message of that name, with the same timestamp, the merged
\* meta, and the upload URL built from the merged meta as value.
C16_UploadRewritten ==
    [][ ( /\ HandleStep
          /\ LastMessage'.name = config.upload_publish_name
          /\ UploadKeys \subseteq DOMAIN LastMerged' )
        => ( /\ LastPublished'
             /\ \A m \in LastPublishedMessages' :
                   m = Message(config.upload_publish_name,
                               ExpectedUrl(LastMerged', LastMerged'["job"],
                                           LastMessage'.timestamp),
                               LastMessage'.timestamp, LastMerged') ) ]_vars

\* The last operation handled a delivery of a message named "upload".
LastWasUpload == last.op = "handle_delivery" /\ LastMessage.name = "upload"

\* C17: the tag in the URL of a published upload is the tag of the plugin
\* reference in its meta: the last "/"-separated segment split on ":", one
\* piece giving "latest" and two pieces the second piece.  (Stated for
\* references of at most two pieces and a job that is not blank; those are
\* C18's and C19's.)
C17_TagFromLastSegment ==
    LastWasUpload =>
        \A m \in LastPublishedMessages :
            (TagIsValid(m.meta["plugin"]) /\ m.meta["job"] # Str(""))
            => m.value = ExpectedUrl(m.meta, m.meta["job"], m.timestamp)

\* C18: an upload delivery whose meta lacks a key the URL needs, however the
\* meta is merged (the pod and the configuration supply every key but
\* filename), is rejected, counted as rejected and published nowhere.
C18_UnrewritableRejected ==
    [][ ( /\ HandleStep
          /\ LastMessage'.name = "upload"
          /\ ~HasKey(LastMessage'.meta, "filename") )
        => ( /\ LastRejected'
             /\ CountsOneRejected
             /\ ~LastPublished' ) ]_vars

\* C19: an upload whose meta has a blank job is published with a URL built
\* under the job "sage", and its published meta keeps the blank job.
\* (Stated for plugin references with an explicit tag, which C17 leaves
\* alone.)
C19_BlankJobIsSage ==
    LastWasUpload =>
        \A m \in LastPublishedMessages :
            ( /\ LastMessage.meta["job"] = Str("")
              /\ CountSep(SplitLast(m.meta["plugin"], "/"), ":") = 1 )
            => /\ m.meta["job"] = Str("")
               /\ m.value = ExpectedUrl(m.meta, Str("sage"), m.timestamp)

\* ------------------------------------------------------------ the backlog

\* The step is a call of prune_backlog (a sweep).
PruneStep ==
    /\ last'.op = "prune_backlog"
    /\ ndeliveries' = ndeliveries
    /\ pod_cache' = pod_cache
    /\ clock' = clock

\* The deliveries held in the backlog, in order, whatever wraps them.
Held(b) ==
    [i \in 1..Len(b) |->
        IF "delivery" \in DOMAIN b[i] THEN b[i].delivery ELSE b[i]]

HeldOf(b, uid) == {i \in 1..Len(b) : Held(b)[i].pod_uid = uid}

\* The calls of one kind made for one delivery, in a log of calls.
CallsIn(c, tag, call) ==
    {i \in 1..Len(c) : c[i].tag = tag /\ c[i].call = call}

NumIn(c, tag, call) == Cardinality(CallsIn(c, tag, call))

\* The tags of the deliveries of a uid held in a backlog.
HeldTags(b, uid) == {Held(b)[i].delivery_tag : i \in HeldOf(b, uid)}

\* A delivery the handler can publish once it has the pod: decodable, of a
\* known scope, and not an upload that cannot be rewritten.
Publishable(d) ==
    /\ ~LoadRaises(d.body)
    /\ d.routing_key \in Scopes
    /\ ~(Load(d.body).name = "upload" /\ UploadUrlRaises(Load(d.body)))

\* C21: a delivery whose uid has no pod in the cache yet (no entry, or an
\* entry of None) is put in the backlog and counted as backlogged once; it
\* is not published, acked or rejected by the call.
C21_HeldInBacklog ==
    [][ ( /\ HandleStep
          /\ GivenMapping
          /\ last'.delivery.pod_uid \in CacheKeys
          /\ pod_cache[last'.delivery.pod_uid] # "pod" )
        => ( /\ \E i \in 1..Len(backlog') : Held(backlog')[i] = last'.delivery
             /\ metrics'.backlogged_total = metrics.backlogged_total + 1
             /\ ~LastPublished'
             /\ Acks(LastTag)' + Rejects(LastTag)' = 0 ) ]_vars

\* C22: once the pod of a uid is in the cache and the backlog is flushed,
\* every publishable delivery held under that uid has been published and
\* acked, in the order of arrival, and none of the uid is left in the
\* backlog.
C22_FlushedInOrder ==
    [][ ( /\ PruneStep
          /\ GivenMapping
          /\ \E u \in CacheKeys : pod_cache[u] = "pod" /\ HeldOf(backlog, u) # {} )
        => \A u \in CacheKeys :
              pod_cache[u] = "pod" =>
                 /\ HeldOf(backlog', u) = {}
                 /\ \A i \in HeldOf(backlog, u) :
                       Publishable(Held(backlog)[i]) =>
                          /\ NumIn(calls', Held(backlog)[i].delivery_tag, "basic_ack") = 1
                          /\ NumIn(calls', Held(backlog)[i].delivery_tag, "basic_publish") >= 1
                 /\ \A i, j \in HeldOf(backlog, u) :
                       i < j =>
                          \A a \in CallsIn(calls', Held(backlog)[i].delivery_tag, "basic_publish"),
                             b \in CallsIn(calls', Held(backlog)[j].delivery_tag, "basic_publish") :
                                a < b ]_vars

\* C30: a delivery that arrives while an earlier, publishable delivery of
\* its uid is still held in the backlog is not published by the call that
\* handles it.
C30_NoOvertaking ==
    [][ ( /\ HandleStep
          /\ \E i \in HeldOf(backlog, last'.delivery.pod_uid) :
                Publishable(Held(backlog)[i]) )
        => ~LastPublished' ]_vars

\* The delivery of this step meets a decode, metadata or rewrite error.
DataPlaneError ==
    /\ HandleStep
    /\ last'.delivery.pod_uid \in CacheKeys
    /\ \/ PodCacheGetItem(last'.delivery.pod_uid) = "KeyError"
       \/ /\ PodCacheGetItem(last'.delivery.pod_uid) = "pod"
          /\ \/ LoadRaises(last'.delivery.body)
             \/ LastMessage'.name = "upload" /\ UploadUrlRaises(LastMessage')

\* C25: a decode, metadata or upload-rewrite error does not escape
\* handle_delivery: the call returns, having rejected the delivery and
\* counted it.
C25_ErrorsDoNotEscape ==
    [][ (DataPlaneError /\ GivenMapping)
        => ( /\ last'.exc = ""
             /\ LastRejected'
             /\ CountsOneRejected ) ]_vars

\* ------------------------------------------------- the backlog under a clock

\* A handler with a mapping as pod cache, its deliveries, the pod events of
\* its owner and its sweeps, under a clock that moves on between them.
MaxArrivals == 2

\* MessageHandlerConfig.pod_without_metadata_state_expire_duration.
PodWithoutMetadataExpiry == 300

\* Readings of the clock: the start, one past the 30 s of prune_backlog, one
\* past the configured expiry of a pod without metadata.
Times == {0, BacklogExpiry + 1, PodWithoutMetadataExpiry + 1}

ExpiryInit ==
    /\ Init
    /\ pod_cache_type = "mapping"

\* The broker hands a delivery of uid u1 to the handler at the clock's
\* present reading.
Arrive ==
    /\ ndeliveries < MaxArrivals
    /\ \E body \in {BadBody} \cup {Dump(m) : m \in {x \in TestMessages : x.name = "test"}} :
          LET d == Delivery(ndeliveries + 1, "all", "u1", body)
          IN  Becomes(handle_delivery(HandlerState, d), "handle_delivery", d,
                      "plugin")
    /\ ndeliveries' = ndeliveries + 1
    /\ updated_at' = clock
    /\ UNCHANGED <<config, pod_cache_type, pod_cache, clock, loopVars, mapper, lru, closed, ioloop>>

\* A pod event: the owner of the cache stores or removes the entry of u1 at
\* the clock's present reading.
PodEvent ==
    /\ \E v \in {"missing", "None", "pod"} :
          /\ pod_cache["u1"] # v
          /\ pod_cache' = [pod_cache EXCEPT !["u1"] = v]
    /\ updated_at' = clock
    /\ UNCHANGED <<config, pod_cache_type, backlog, calls, metrics,
                   ndeliveries, last, clock, loopVars, mapper, lru, closed, ioloop>>

\* Time passes.
Tick ==
    /\ \E t \in Times : t > clock /\ clock' = t
    /\ UNCHANGED <<config, pod_cache_type, pod_cache, backlog, calls, metrics,
                   ndeliveries, last, updated_at, loopVars, mapper, lru, closed, ioloop>>

\* A sweep of the backlog at the clock's present reading.
Sweep ==
    /\ Becomes(prune_backlog(HandlerState, clock), "prune_backlog", NoDelivery,
               "")
    /\ UNCHANGED <<config, pod_cache_type, pod_cache, ndeliveries, auxVars>>

ExpiryNext == Arrive \/ PodEvent \/ Tick \/ Sweep

ExpirySpec == ExpiryInit /\ [][ExpiryNext]_vars

\* C23: after a sweep run when more than the expiry of a pod without
\* metadata has passed since the last delivery or pod event of the uid, and
\* the uid still has no pod, every delivery held under it has been rejected,
\* not acked and not published, and none of the uid is left in the backlog.
C23_ExpiredRejected ==
    [][ ( /\ PruneStep
          /\ clock - updated_at > PodWithoutMetadataExpiry
          /\ pod_cache["u1"] # "pod"
          /\ HeldOf(backlog, "u1") # {} )
        => ( /\ HeldOf(backlog', "u1") = {}
             /\ \A t \in HeldTags(backlog, "u1") :
                   /\ NumIn(calls', t, "basic_reject") = 1
                   /\ NumIn(calls', t, "basic_ack") = 0
                   /\ NumIn(calls', t, "basic_publish") = 0 ) ]_vars

MaxConsumed == 2
MaxRedeliveries == 1
MaxEvents == 1

\* Where a publish meets a broker transport fault: nowhere, or at one of the
\* two exchanges.
Faults == {"", "data.topic", "to-beehive"}

\* The None that PluginPodEventWatcher.main puts on its queue when it stops:
\* an event without a pod uid.
TerminalEvent == PodOf(None)

MainInit ==
    /\ clock = 0
    /\ updated_at = 0
    /\ main_pc = "consuming"
    /\ watcher \in {"unbound", "running"}
    /\ events = <<>>
    /\ redelivered = 0
    /\ stale = 0
    /\ watch_state = NoWatchState
    /\ lru = NoLru
    /\ closed = <<>>
    /\ ioloop = NoLoop
    /\ mapper = <<>>
    /\ config \in Configs
    /\ pod_cache_type = "mapping"
    /\ pod_cache \in [CacheKeys -> {"missing", "None", "pod"}]
    /\ backlog = <<>>
    /\ calls = <<>>
    /\ metrics = [handled_total |-> 0, invalid_total |-> 0,
                  backlogged_total |-> 0, published_total |-> 0,
                  expired_total |-> 0, pods_expired_total |-> 0,
                  messages_in_backlog |-> 0, pods_in_backlog |-> 0]
    /\ ndeliveries = 0
    /\ last = [op |-> "init", delivery |-> NoDelivery, user_id |-> "",
               exc |-> ""]

\* An exception that leaves a callback leaves channel.start_consuming(); the
\* except clause logs it and the with block closes the connection.
AfterCallback(st) ==
    IF st.exc # "" THEN "disconnected" ELSE "consuming"

\* What main() enters on its ExitStack, in order: the connection, then the
\* channel made from it.
Entered == <<"connection", "channel">>

\* An ExitStack that closes what it entered first first.
ExitStackExit_Fifo == Entered

\* ExitStack.__exit__, at the end of the with block: what was entered is
\* closed, the last entered first.
ExitStackExit == [i \in 1..Len(Entered) |-> Entered[Len(Entered) + 1 - i]]

\* Leaving start_consuming leaves the with block.
Closes(pc) == IF pc = "consuming" THEN closed ELSE ExitStackExit

\* The broker hands a delivery to pika_handler, which calls
\* handler.handle_delivery; a publish it makes may meet a transport fault.
Consume ==
    /\ main_pc = "consuming"
    /\ ndeliveries - redelivered < MaxConsumed
    /\ \E pod_uid \in {None, "u1"},
          body \in {BadBody} \cup {Dump(m) : m \in {x \in TestMessages : x.name = "test"}},
          f \in Faults :
          LET d == Delivery(ndeliveries + 1, "all", pod_uid, body)
              st == handle_delivery([HandlerState EXCEPT !.fault = f], d)
          IN  /\ Becomes(st, "handle_delivery", d, "plugin")
              /\ main_pc' = AfterCallback(st)
              /\ closed' = Closes(AfterCallback(st))
    /\ ndeliveries' = ndeliveries + 1
    /\ UNCHANGED <<config, pod_cache_type, pod_cache, clock, updated_at,
                   watcher, events, redelivered, stale, watch_state, mapper, lru, ioloop>>

\* Delivery.reject calls channel.basic_reject(delivery_tag) and passes no
\* requeue argument, so the call's default, requeue=True, applies: the
\* broker puts the message back on the queue and hands it to the consumer
\* again, under a new delivery tag.
Redeliver ==
    /\ main_pc = "consuming"
    /\ redelivered < MaxRedeliveries
    /\ last.op = "handle_delivery"
    /\ \E i \in 1..Len(calls) :
          calls[i].call = "basic_reject" /\ calls[i].tag = last.delivery.delivery_tag
    /\ LET d == [last.delivery EXCEPT !.delivery_tag = ndeliveries + 1]
           st == handle_delivery(HandlerState, d)
       IN  /\ Becomes(st, "handle_delivery", d, "plugin")
           /\ main_pc' = AfterCallback(st)
           /\ closed' = Closes(AfterCallback(st))
    /\ ndeliveries' = ndeliveries + 1
    /\ redelivered' = redelivered + 1
    /\ UNCHANGED <<config, pod_cache_type, pod_cache, clock, updated_at,
                   watcher, events, stale, watch_state, mapper, lru, ioloop>>

\* handler.handle_pod(pod): the deliveries held for the pod are published and
\* acked in the order they arrived.
RECURSIVE flush_backlog(_, _, _)
flush_backlog(st, n, uid) ==
    IF n = 0 \/ st.exc # ""
    THEN st
    ELSE LET d == Held(st.backlog)[1]
             s0 == [st EXCEPT !.backlog = Tail(@)]
         IN  IF d.pod_uid = uid
             THEN flush_backlog(load_and_publish_message(s0, d), n - 1, uid)
             ELSE flush_backlog([s0 EXCEPT !.backlog = Append(@, Head(st.backlog))],
                                n - 1, uid)

handle_pod(st, pod) == flush_backlog(st, Len(st.backlog), pod.uid)

\* The body of forward_pod_events for the events the queue holds: every pod
\* goes to handle_pod, and the None of a stopped watcher raises RuntimeError.
RECURSIVE forward_events(_, _)
forward_events(st, evs) ==
    IF evs = <<>> \/ st.exc # ""
    THEN st
    ELSE IF Head(evs).uid = None
    THEN Raise(st, "RuntimeError")
    ELSE forward_events(handle_pod(st, Head(evs)), Tail(evs))

\* The uids of the pods that forward_events hands to handle_pod.
RECURSIVE forwarded_uids(_)
forwarded_uids(evs) ==
    IF evs = <<>> \/ Head(evs).uid = None
    THEN {}
    ELSE {Head(evs).uid} \cup forwarded_uids(Tail(evs))

\* forward_pod_events as a whole: main.py binds the name pod_event_watcher
\* nowhere, so the lookup raises NameError unless a watcher has been bound to
\* it.
forward_pod_events(st) ==
    IF watcher = "unbound"
    THEN Raise(st, "NameError")
    ELSE forward_events(st, events)

\* The timer of call_every(connection, 1.0, forward_pod_events) fires.
ForwardPodEvents ==
    /\ main_pc = "consuming"
    /\ LET st == forward_pod_events(HandlerState)
       IN  /\ Becomes(st, "forward_pod_events", NoDelivery, "")
           /\ main_pc' = AfterCallback(st)
           /\ closed' = Closes(AfterCallback(st))
    /\ pod_cache' = IF watcher = "unbound" THEN pod_cache
                    ELSE [u \in CacheKeys |->
                            IF u \in forwarded_uids(events) THEN "pod"
                            ELSE pod_cache[u]]
    /\ events' = <<>>
    /\ UNCHANGED <<config, pod_cache_type, ndeliveries, clock, updated_at,
                   watcher, redelivered, stale, watch_state, mapper, lru, ioloop>>

\* The timer of call_every(connection, 10.0, ...) fires: the sweep of the
\* backlog.
ExpiryTimer ==
    /\ main_pc = "consuming"
    /\ backlog # <<>>
    /\ LET st == prune_backlog(HandlerState, clock)
       IN  /\ Becomes(st, "prune_backlog", NoDelivery, "")
           /\ main_pc' = AfterCallback(st)
           /\ closed' = Closes(AfterCallback(st))
    /\ UNCHANGED <<config, pod_cache_type, pod_cache, ndeliveries, clock,
                   updated_at, watcher, events, redelivered, stale, watch_state, mapper, lru, ioloop>>

\* handler.clear_backlogs_but_keep_pod_state(): the deliveries held in memory
\* are dropped, their tags being void once the channel is closed.
clear_backlogs_but_keep_pod_state(st) == [st EXCEPT !.backlog = <<>>]

\* A Retry that gives up instead of going round the loop.
Retry_Exits ==
    /\ main_pc = "disconnected"
    /\ main_pc' = "exited"
    /\ closed' = closed
    /\ UNCHANGED <<config, pod_cache_type, pod_cache, backlog, calls, metrics,
                   ndeliveries, last, clock, updated_at, watcher, events,
                   redelivered, stale, watch_state, mapper, lru, ioloop>>

\* A Retry that goes round the loop with the backlog as it was.
Retry_KeepsBacklog ==
    /\ main_pc = "disconnected"
    /\ main_pc' = "consuming"
    /\ closed' = <<>>
    /\ stale' = ndeliveries
    /\ UNCHANGED <<config, pod_cache_type, pod_cache, backlog, calls, metrics,
                   ndeliveries, last, clock, updated_at, watcher, events,
                   redelivered, watch_state, mapper, lru, ioloop>>

\* After the with block: clear the backlog, sleep 3.0 s, go round the while
\* loop, connect and consume again on a new ExitStack.
Retry ==
    /\ main_pc = "disconnected"
    /\ backlog' = clear_backlogs_but_keep_pod_state(HandlerState).backlog
    /\ main_pc' = "consuming"
    /\ closed' = <<>>
    /\ stale' = ndeliveries
    /\ UNCHANGED <<config, pod_cache_type, pod_cache, calls, metrics,
                   ndeliveries, last, clock, updated_at, watcher, events,
                   redelivered, watch_state, mapper, lru, ioloop>>

\* KeyboardInterrupt in channel.start_consuming(): main returns from inside
\* the with block, and __main__ has nothing to do after it.
Interrupt ==
    /\ main_pc = "consuming"
    /\ main_pc' = "exited"
    /\ closed' = ExitStackExit
    /\ UNCHANGED <<config, pod_cache_type, pod_cache, backlog, calls, metrics,
                   ndeliveries, last, clock, updated_at, watcher, events,
                   redelivered, stale, watch_state, mapper, lru, ioloop>>

\* watch_events puts the Pod of an event on the queue.
WatchEvent ==
    /\ watcher = "running"
    /\ Len(events) < MaxEvents
    /\ events' = Append(events, PodOf("u1"))
    /\ UNCHANGED <<config, pod_cache_type, pod_cache, backlog, calls, metrics,
                   ndeliveries, last, clock, updated_at, main_pc, watcher,
                   redelivered, stale, watch_state, mapper, lru, closed, ioloop>>

\* watch_events raises ApiException: the watcher logs it and sleeps 5.0 s.
WatcherApiException ==
    /\ watcher = "running"
    /\ watcher' = "backoff"
    /\ UNCHANGED <<config, pod_cache_type, pod_cache, backlog, calls, metrics,
                   ndeliveries, last, clock, updated_at, main_pc, events,
                   redelivered, stale, watch_state, mapper, lru, closed, ioloop>>

\* The sleep is over: the while loop calls watch_events again.
WatcherRestart ==
    /\ watcher = "backoff"
    /\ watcher' = "running"
    /\ UNCHANGED <<config, pod_cache_type, pod_cache, backlog, calls, metrics,
                   ndeliveries, last, clock, updated_at, main_pc, events,
                   redelivered, stale, watch_state, mapper, lru, closed, ioloop>>

\* Any other exception, or the stop flag, ends the watcher's loop: the
\* finally clause puts None on the queue.
WatcherStops ==
    /\ watcher = "running"
    /\ watcher' = "terminal"
    /\ events' = Append(events, TerminalEvent)
    /\ UNCHANGED <<config, pod_cache_type, pod_cache, backlog, calls, metrics,
                   ndeliveries, last, clock, updated_at, main_pc, redelivered,
                   stale, watch_state, mapper, lru, closed, ioloop>>

MainNext ==
    \/ Consume \/ Redeliver \/ ForwardPodEvents \/ ExpiryTimer \/ Retry
    \/ Interrupt \/ WatchEvent \/ WatcherApiException \/ WatcherRestart
    \/ WatcherStops

MainSpec == MainInit /\ [][MainNext]_vars

C27_RejectedNotHandledAgain ==
    [][ (\E i \in 1..Len(calls) : calls[i].call = "basic_reject")
        => redelivered' = redelivered ]_vars

\* C28: once forward_pod_events has met the None of a stopped watcher, the
\* step main() takes next is to exit, not to consume again.
C28_WatcherTerminalIsFatal ==
    [][ ( /\ watcher = "terminal"
          /\ last.op = "forward_pod_events"
          /\ last.exc = "RuntimeError"
          /\ main_pc = "disconnected"
          /\ main_pc' # main_pc )
        => main_pc' = "exited" ]_vars

\* ------------------------------------------------------------- the mapper

\* sensor_table and plugin_table of src/mapper.py.
Sensor(name, waggle_id, waggle_sub_id, unit, type) ==
    [name |-> name, waggle_id |-> waggle_id, waggle_sub_id |-> waggle_sub_id,
     unit |-> unit, type |-> type]

sensor_table ==
    { Sensor("raw.tmp112", 1, 0, "", "bytes"),
      Sensor("env.temperature.tmp112", 1, 1, "C", "float"),
      Sensor("raw.htu21d", 2, 0, "C", "bytes"),
      Sensor("env.temperature.htu21d", 2, 1, "C", "float"),
      Sensor("env.humidity.htu21d", 2, 2, "%RH", "float"),
      Sensor("env.humidity.hih4030", 3, 1, "%RH", "float"),
      Sensor("test.int.1", 65535, 1, "", "int"),
      Sensor("test.int.2", 65535, 2, "", "int"),
      Sensor("test.int.3", 65535, 3, "", "int"),
      Sensor("test.float.1", 65534, 1, "", "float"),
      Sensor("test.float.2", 65534, 2, "", "float"),
      Sensor("test.float.3", 65534, 3, "", "float"),
      Sensor("test.bytes.1", 65533, 1, "", "bytes"),
      Sensor("test.bytes.2", 65533, 2, "", "bytes"),
      Sensor("test.bytes.3", 65533, 3, "", "bytes"),
      Sensor("test.str.1", 65532, 1, "", "str"),
      Sensor("test.str.2", 65532, 2, "", "str"),
      Sensor("test.str.3", 65532, 3, "", "str") }

plugin_table ==
    { [name |-> "simple", waggle_id |-> 1],
      [name |-> "carped", waggle_id |-> 2],
      [name |-> "pub", waggle_id |-> 3],
      [name |-> "transform", waggle_id |-> 4],
      [name |-> "data-store", waggle_id |-> 5],
      [name |-> "test", waggle_id |-> 65535] }

\* The four lookup dicts: whether a key is in one, and the row it gives.
InSensorByName(name) == \E r \in sensor_table : r.name = name
sensor_by_name(name) == CHOOSE r \in sensor_table : r.name = name
sensor_by_id_sub_id(id, sub_id) ==
    CHOOSE r \in sensor_table : r.waggle_id = id /\ r.waggle_sub_id = sub_id
InPluginByName(name) == \E r \in plugin_table : r.name = name
plugin_by_name(name) == CHOOSE r \in plugin_table : r.name = name
plugin_by_waggle_id(id) == CHOOSE r \in plugin_table : r.waggle_id = id

\* s.split(sep): the fields of s between its separators.
RECURSIVE Split(_, _)
Split(s, sep) ==
    IF \E i \in 1..Len(s) : s[i] = sep
    THEN LET i == CHOOSE j \in 1..Len(s) :
                      /\ s[j] = sep
                      /\ \A k \in 1..(j-1) : s[k] # sep
         IN  <<SubSeq(s, 1, i - 1)>> \o Split(SubSeq(s, i + 1, Len(s)), sep)
    ELSE <<s>>

\* int(s) of a str: a numeral is one token; int accepts leading zeros and
\* raises ValueError on anything that is not a numeral.
IntOf == ("0" :> 0) @@ ("1" :> 1) @@ ("2" :> 2) @@ ("3" :> 3) @@ ("01" :> 1)
IntRaises(s) == Len(s) # 1 \/ s[1] \notin DOMAIN IntOf
int(s) == IntOf[s[1]]

\* str(n) of an int: the numeral without leading zeros.
str(n) == CHOOSE t \in {"0", "1", "2", "3"} : IntOf[t] = n

\* parse_version_str: ValueError unless s has three fields that int accepts.
ParseVersionRaises(s) ==
    LET fields == Split(s, ".") IN
    Len(fields) # 3 \/ \E i \in 1..Len(fields) : IntRaises(fields[i])

parse_version_str(s) ==
    LET fields == Split(s, ".") IN [i \in 1..3 |-> int(fields[i])]

\* parse_plugin_name_version: ValueError unless s is name:version with a
\* name that is not empty.
ParsePluginRaises(s) ==
    LET fields == Split(s, ":") IN
    \/ Len(fields) # 2
    \/ Len(fields[1]) = 0
    \/ ParseVersionRaises(fields[2])

parse_plugin_name_version(s) ==
    LET fields == Split(s, ":") IN
    [name |-> fields[1][1], version |-> parse_version_str(fields[2])]

\* validate_type(v, t) raises TypeError unless isinstance(v, t); a value is
\* modelled with the type it is an instance of.
ValidateTypeRaises(v, t) == v.type # t

\* A timestamp in nanoseconds is the pair of its seconds and the nanoseconds
\* within the second.  1e9 is a float, so ts // 1e9 first converts ts to the
\* nearest float: for the timestamps of this century (2^60 <= ts < 2^61) the
\* floats are the multiples of 256, a whole number of seconds is one of them
\* (1e9 = 2^9 * 5^9) with an even significand, and ties go to the even one.
E9 == 1000000000
FloatSpacing == 256

ToFloat(ts) ==
    LET r == ts.ns % FloatSpacing
        down == ts.ns - r
        up == down + FloatSpacing
        ns == IF 2 * r < FloatSpacing THEN down
              ELSE IF 2 * r > FloatSpacing THEN up
              ELSE IF (down \div FloatSpacing) % 2 = 0 THEN down ELSE up
    IN  IF ns = E9 THEN [sec |-> ts.sec + 1, ns |-> 0]
        ELSE [sec |-> ts.sec, ns |-> ns]

\* int(ts // 1e9) and int(timestamp * 1e9).
FloorDivE9(ts) == ToFloat(ts).sec
TimesE9(timestamp) == [sec |-> timestamp, ns |-> 0]

WAGGLE_NODE_ID == "0000000000000000"
WAGGLE_NODE_SUB_ID == "0000000000000000"

Raised(exc) == [exc |-> exc]

\* local_to_waggle: the exception it raises, or the message, datagram and
\* sensorgram it packs, as the fields that unpacking gives back.
local_to_waggle(msg) ==
    IF ~InSensorByName(msg.name) THEN Raised("KeyError")
    ELSE IF ParsePluginRaises(msg.plugin) THEN Raised("ValueError")
    ELSE IF ~InPluginByName(parse_plugin_name_version(msg.plugin).name)
    THEN Raised("KeyError")
    ELSE LET sensor == sensor_by_name(msg.name)
             parsed == parse_plugin_name_version(msg.plugin)
             plugin == plugin_by_name(parsed.name)
         IN  IF ValidateTypeRaises(msg.value, sensor.type)
             THEN Raised("TypeError")
             ELSE [exc |-> "",
                   sender_id |-> WAGGLE_NODE_ID,
                   sender_sub_id |-> WAGGLE_NODE_SUB_ID,
                   plugin_id |-> plugin.waggle_id,
                   plugin_major_version |-> parsed.version[1],
                   plugin_minor_version |-> parsed.version[2],
                   plugin_patch_version |-> parsed.version[3],
                   timestamp |-> FloorDivE9(msg.ts),
                   id |-> sensor.waggle_id,
                   sub_id |-> sensor.waggle_sub_id,
                   value |-> msg.value]

\* waggle_to_local, for data that local_to_waggle packed.
waggle_to_local(data) ==
    LET sensor == sensor_by_id_sub_id(data.id, data.sub_id)
        plugin == plugin_by_waggle_id(data.plugin_id)
    IN  IF ValidateTypeRaises(data.value, sensor.type)
        THEN Raised("TypeError")
        ELSE [exc |-> "",
              ts |-> TimesE9(data.timestamp),
              value |-> data.value,
              name |-> sensor.name,
              plugin |-> <<plugin.name, ":",
                           str(data.plugin_major_version), ".",
                           str(data.plugin_minor_version), ".",
                           str(data.plugin_patch_version)>>]

\* The messages given to the mapper: sensor names of each type and one the
\* table lacks, plugin strings with known and unknown names and with
\* versions of every shape, a value of each type, and timestamps across the
\* last second of an epoch second.
MapperNames ==
    {"env.temperature.tmp112", "test.int.1", "test.str.1", "test.bytes.1",
     "env.count.car"}

MapperPlugins ==
    { <<"simple", ":", "0", ".", "1", ".", "0">>,
      <<"carped", ":", "1", ".", "2", ".", "3">>,
      <<"test", ":", "01", ".", "2", ".", "3">>,
      <<"nosuch", ":", "1", ".", "2", ".", "3">>,
      <<"test", ":", "1", ".", "2">>,
      <<"test", ":">> }

MapperValues ==
    { [type |-> "float", v |-> "31.2"], [type |-> "int", v |-> "1"],
      [type |-> "str", v |-> "a"], [type |-> "bytes", v |-> "a"] }

MapperTimes ==
    { [sec |-> 1600973660, ns |-> n] :
        n \in {0, 233210000, 999999871, 999999872, 999999999} }

MapperMessages ==
    [name : MapperNames, plugin : MapperPlugins, value : MapperValues,
     ts : MapperTimes]

MapperInit ==
    /\ mapper \in [stage : {"msg"}, msg : MapperMessages]
    /\ clock = 0
    /\ updated_at = 0
    /\ main_pc = "consuming"
    /\ watcher = "running"
    /\ events = <<>>
    /\ redelivered = 0
    /\ stale = 0
    /\ watch_state = NoWatchState
    /\ lru = NoLru
    /\ closed = <<>>
    /\ ioloop = NoLoop
    /\ config \in Configs
    /\ pod_cache_type = "mapping"
    /\ pod_cache = [u \in CacheKeys |-> "missing"]
    /\ backlog = <<>>
    /\ calls = <<>>
    /\ metrics = [handled_total |-> 0, invalid_total |-> 0,
                  backlogged_total |-> 0, published_total |-> 0,
                  expired_total |-> 0, pods_expired_total |-> 0,
                  messages_in_backlog |-> 0, pods_in_backlog |-> 0]
    /\ ndeliveries = 0
    /\ last = [op |-> "init", delivery |-> NoDelivery, user_id |-> "",
               exc |-> ""]

\* data = local_to_waggle(msg)
LocalToWaggle ==
    /\ mapper.stage = "msg"
    /\ mapper' = [stage |-> "data", msg |-> mapper.msg,
                  data |-> local_to_waggle(mapper.msg)]
    /\ UNCHANGED <<config, pod_cache_type, pod_cache, backlog, calls, metrics,
                   ndeliveries, last, clock, updated_at, loopVars, lru, closed, ioloop>>

\* out = waggle_to_local(data)
WaggleToLocal ==
    /\ mapper.stage = "data"
    /\ mapper.data.exc = ""
    /\ mapper' = [stage |-> "out", msg |-> mapper.msg,
                  out |-> waggle_to_local(mapper.data)]
    /\ UNCHANGED <<config, pod_cache_type, pod_cache, backlog, calls, metrics,
                   ndeliveries, last, clock, updated_at, loopVars, lru, closed, ioloop>>

MapperNext == LocalToWaggle \/ WaggleToLocal

MapperSpec == MapperInit /\ [][MapperNext]_vars

\* A message of the kind the tables describe: a sensor name and a plugin
\* name of the tables, a version of three numbers written without leading
\* zeros, and a value of the sensor's type.
KnownToMapper(msg) ==
    /\ InSensorByName(msg.name)
    /\ ~ParsePluginRaises(msg.plugin)
    /\ InPluginByName(parse_plugin_name_version(msg.plugin).name)
    /\ \A i \in 1..3 :
          str(parse_plugin_name_version(msg.plugin).version[i])
             = Split(Split(msg.plugin, ":")[2], ".")[i][1]
    /\ ~ValidateTypeRaises(msg.value, sensor_by_name(msg.name).type)

\* C29: for a message known to the mapper tables, local_to_waggle does not
\* raise, and waggle_to_local of what it packed gives back the same name,
\* plugin string and value, and a timestamp of the same second.
C29_RoundTrip ==
    KnownToMapper(mapper.msg) =>
       /\ mapper.stage = "data" => mapper.data.exc = ""
       /\ mapper.stage = "out" =>
             /\ mapper.out.exc = ""
             /\ mapper.out.name = mapper.msg.name
             /\ mapper.out.plugin = mapper.msg.plugin
             /\ mapper.out.value = mapper.msg.value
             /\ mapper.out.ts.sec = mapper.msg.ts.sec

\* ------------------------------------------------ backlog and pod state

\* C31: a uid whose pod is in the cache has no delivery in the backlog.
C31_BoundHasNoBacklog ==
    \A i \in 1..Len(backlog) :
       Held(backlog)[i].pod_uid \in CacheKeys
          => pod_cache[Held(backlog)[i].pod_uid] # "pod"

C33_GaugeIsBacklogSize == metrics.messages_in_backlog = Len(backlog)

\* ------------------------------------------------------- the pod watcher

\* PluginPodEventWatcher's thread (src/pod_event_watcher.py), the consumer
\* that drains its queue, and the loop of src/cache_pod_info_in_redis.py,
\* fed by the events of the Kubernetes watch stream.
MaxStream == 3
MaxDrains == 2
MaxApiExceptions == 2

\* The pods of the stream's events: a uid, and the node the pod is assigned
\* to (None before the scheduler has placed it).
KubeEvents == [uid : {"u1", "u2"}, node_name : {None, "ws-nxcore"}]

\* The watcher and its queue, as the thread's steps read and write them.
WatcherNow == [state |-> watch_state, events |-> events]

\* self.events.put(item); puts keeps what was put, in order.
Put(w, item) ==
    [w EXCEPT !.events = Append(@, item), !.state.puts = Append(@, item)]

\* The Pod that watch_events builds from an event's object.
PodRecord(ev) ==
    [PodOf(ev.uid) EXCEPT !.image = SplitLast(@, "/"),
                          !.host = IF ev.node_name = None THEN None
                                   ELSE Str(ev.node_name)]

\* A watch_events that queues every pod of the stream.
watch_event_NoHostCheck(w, ev) ==
    [Put(w, PodRecord(ev)) EXCEPT !.state.pod_events_total = @ + 1]

\* The body of the loop of watch_events for one event of the stream, the
\* stop flag being clear.
watch_event(w, ev) ==
    IF ev.node_name = None
    THEN w
    ELSE [Put(w, PodRecord(ev)) EXCEPT !.state.pod_events_total = @ + 1]

\* A finally clause that follows an except clause which has put the marker
\* already.
watcher_finally_Twice(w) == Put(Put(w, TerminalEvent), TerminalEvent)

\* The finally clause of PluginPodEventWatcher.main.
watcher_finally(w) == Put(w, TerminalEvent)

\* A ready_events that yields the newest item first.
RECURSIVE ready_events_Lifo(_)
ready_events_Lifo(q) ==
    IF q = <<>> THEN <<>> ELSE ready_events_Lifo(Tail(q)) \o <<Head(q)>>

\* ready_events: get_nowait until the queue raises Empty.
RECURSIVE ready_events(_)
ready_events(q) ==
    IF q = <<>> THEN <<>> ELSE <<Head(q)>> \o ready_events(Tail(q))

\* The data that cache_pod_info_in_redis.py stores under pod.<uid>.
CacheData(ev) ==
    [uid |-> ev.uid, name |-> PodOf(ev.uid).name,
     labels |-> PodOf(ev.uid).labels, image |-> PodOf(ev.uid).image,
     host |-> ev.node_name]

WatcherInit ==
    /\ clock = 0
    /\ updated_at = 0
    /\ main_pc = "consuming"
    /\ watcher = "running"
    /\ events = <<>>
    /\ redelivered = 0
    /\ stale = 0
    /\ watch_state = NoWatchState
    /\ lru = NoLru
    /\ closed = <<>>
    /\ ioloop = NoLoop
    /\ mapper = <<>>
    /\ config \in Configs
    /\ pod_cache_type = "mapping"
    /\ pod_cache = [u \in CacheKeys |-> "missing"]
    /\ backlog = <<>>
    /\ calls = <<>>
    /\ metrics = [handled_total |-> 0, invalid_total |-> 0,
                  backlogged_total |-> 0, published_total |-> 0,
                  expired_total |-> 0, pods_expired_total |-> 0,
                  messages_in_backlog |-> 0, pods_in_backlog |-> 0]
    /\ ndeliveries = 0
    /\ last = [op |-> "init", delivery |-> NoDelivery, user_id |-> "",
               exc |-> ""]

\* What the watcher's steps leave alone.
notWatcher ==
    <<config, pod_cache_type, pod_cache, backlog, calls, metrics, ndeliveries,
      last, clock, updated_at, main_pc, redelivered, stale, mapper, lru, closed, ioloop>>

\* The thread's state after a step that gave w.
WatcherBecomes(w, pc) ==
    /\ watch_state' = w.state
    /\ events' = w.events
    /\ watcher' = pc

\* The stream yields an event.  With the stop flag set watch_events returns,
\* the while loop ends and the finally clause runs.
StreamEvent ==
    /\ watcher = "running"
    /\ watch_state.seen < MaxStream
    /\ \E ev \in KubeEvents :
          LET w == [WatcherNow EXCEPT !.state.seen = @ + 1] IN
          IF watch_state.stop
          THEN WatcherBecomes(watcher_finally(w), "terminal")
          ELSE WatcherBecomes(watch_event(w, ev), "running")
    /\ UNCHANGED notWatcher

\* The stream ends (timeout_seconds) with the stop flag set: the while loop
\* ends and the finally clause runs.
StreamEndsStopped ==
    /\ watcher = "running"
    /\ watch_state.stop
    /\ WatcherBecomes(watcher_finally(WatcherNow), "terminal")
    /\ UNCHANGED notWatcher

\* watch_events raises ApiException: count it and sleep 5.0 s.
ApiException ==
    /\ watcher = "running"
    /\ watch_state.api_exception_total < MaxApiExceptions
    /\ WatcherBecomes([WatcherNow EXCEPT !.state.api_exception_total = @ + 1],
                      "backoff")
    /\ UNCHANGED notWatcher

\* A watcher that gives up after its backoff.
BackoffOver_GivesUp ==
    /\ watcher = "backoff"
    /\ WatcherBecomes(watcher_finally(WatcherNow), "terminal")
    /\ UNCHANGED notWatcher

\* The sleep is over: the while loop tests the stop flag.
BackoffOver ==
    /\ watcher = "backoff"
    /\ IF watch_state.stop
       THEN WatcherBecomes(watcher_finally(WatcherNow), "terminal")
       ELSE WatcherBecomes(WatcherNow, "running")
    /\ UNCHANGED notWatcher

\* watch_events raises another exception: it is logged and the finally
\* clause runs.
Unhandled ==
    /\ watcher = "running"
    /\ WatcherBecomes(watcher_finally(WatcherNow), "terminal")
    /\ UNCHANGED notWatcher

\* __exit__: the stop flag is set.
Stop ==
    /\ ~watch_state.stop
    /\ watch_state' = [watch_state EXCEPT !.stop = TRUE]
    /\ UNCHANGED <<notWatcher, watcher, events>>

\* The consumer's thread runs ready_events to its end.
Drain ==
    /\ watch_state.drains < MaxDrains
    /\ watch_state' = [watch_state EXCEPT !.drained = @ \o ready_events(events),
                                          !.drains = @ + 1]
    /\ events' = <<>>
    /\ UNCHANGED <<notWatcher, watcher>>

\* cache_pod_info_in_redis.py handles an event of its own stream.
CachePodInfo ==
    /\ \E ev \in KubeEvents :
          /\ ev.node_name # None
          /\ CacheData(ev) \notin watch_state.redis
          /\ watch_state' = [watch_state EXCEPT !.redis = @ \cup {CacheData(ev)}]
    /\ UNCHANGED <<notWatcher, watcher, events>>

WatcherNext ==
    \/ StreamEvent \/ StreamEndsStopped \/ ApiException \/ BackoffOver
    \/ Unhandled \/ Stop \/ Drain \/ CachePodInfo

WatcherSpec == WatcherInit /\ [][WatcherNext]_vars

\* The pod records among the items put on the queue.
PodPuts == {i \in 1..Len(watch_state.puts) : watch_state.puts[i].uid # None}
MarkerPuts == {i \in 1..Len(watch_state.puts) : watch_state.puts[i].uid = None}

\* C34: every pod record put on the queue has a host, the pod-events counter
\* counts the records put, and every pod cached in redis has a host.
C34_EmittedPodsHaveHost ==
    /\ \A i \in PodPuts : watch_state.puts[i].host # None
    /\ \A i \in 1..Len(events) : events[i].uid # None => events[i].host # None
    /\ watch_state.pod_events_total = Cardinality(PodPuts)
    /\ \A d \in watch_state.redis : d.host # None

\* The stream has yielded a pod without a host and one with a host.
C34_Witness ==
    /\ watch_state.seen > watch_state.pod_events_total
    /\ watch_state.pod_events_total >= 1
    /\ ~watch_state.stop

\* C35: an ApiException is counted once and puts nothing on the queue; after
\* the backoff the watcher, unless stopped, watches again and puts no
\* marker; the counter moves on no other step.
C35_RestartsAfterApiException ==
    [][ /\ (watcher = "running" /\ watcher' = "backoff")
           => /\ watch_state'.api_exception_total
                    = watch_state.api_exception_total + 1
              /\ events' = events
        /\ (watcher = "backoff" /\ watcher' # watcher /\ ~watch_state.stop)
           => /\ watcher' = "running"
              /\ events' = events
              /\ watch_state'.puts = watch_state.puts
        /\ watch_state'.api_exception_total # watch_state.api_exception_total
           => (watcher = "running" /\ watcher' = "backoff") ]_vars

\* The watcher watches again after an ApiException and no marker was put.
C35_Witness ==
    /\ watch_state.api_exception_total >= 1
    /\ watcher = "running"
    /\ ~watch_state.stop
    /\ MarkerPuts = {}

\* C39: the marker is on the queue's record exactly when the thread has
\* ended, once and as the last item put; what was drained followed by what
\* is queued is what was put, in order; a drain of an empty queue returns
\* nothing.
C39_MarkerOnceAndLast ==
    /\ [] /\ Cardinality(MarkerPuts) = IF watcher = "terminal" THEN 1 ELSE 0
          /\ MarkerPuts \subseteq {Len(watch_state.puts)}
          /\ watch_state.drained \o events = watch_state.puts
    /\ [][ (watch_state'.drains # watch_state.drains /\ events = <<>>)
           => watch_state'.drained = watch_state.drained ]_vars

\* The thread has ended after queueing two pods; the consumer has drained
\* them and the marker, and has drained the empty queue after that.
C39_Witness ==
    /\ watcher = "terminal"
    /\ Len(watch_state.drained) = 3
    /\ watch_state.drained[1].uid # watch_state.drained[2].uid
    /\ watch_state.drained[3].uid = None
    /\ events = <<>>
    /\ watch_state.drains = 2

\* ------------------------------------------------------------- PodCache

\* PodCache.get (src/main.py): a redis read behind functools.lru_cache.
\* lru.memo is the memo in order of recency, the least recently used entry
\* first; every entry notes the time of its last use.
maxsize == 1024

\* Pods looked up, lookups of the oldest entry of a full memo, and the
\* lookups after which u1 is looked up no more.
MaxKeys == 1027
MaxTouches == 2
MaxEarlyLookups == 2

MemoKeys(l) == {l.memo[i].key : i \in 1..Len(l.memo)}

MemoIndex(l, key) == {i \in 1..Len(l.memo) : l.memo[i].key = key}

\* A get whose hits leave the memo's order as it is.
get_NoTouch(l, key) ==
    LET t == l.time + 1 IN
    IF MemoIndex(l, key) # {}
    THEN LET i == CHOOSE j \in MemoIndex(l, key) : TRUE IN
         [l EXCEPT !.time = t, !.result = l.memo[i].value,
                   !.memo[i].used = t]
    ELSE IF key \in l.absent
    THEN [l EXCEPT !.time = t, !.result = "KeyError"]
    ELSE [l EXCEPT !.time = t, !.result = "pod",
                   !.memo = (IF Len(@) = maxsize THEN Tail(@) ELSE @)
                            \o <<[key |-> key, value |-> "pod", used |-> t]>>]

\* PodCache.get(key).  A hit returns the memoized value and makes the entry
\* the most recently used.  A miss reads redis: None raises KeyError, which
\* lru_cache does not memoize; a value is returned and memoized, in place of
\* the least recently used entry when the memo is full.
get(l, key) ==
    LET t == l.time + 1 IN
    IF MemoIndex(l, key) # {}
    THEN LET i == CHOOSE j \in MemoIndex(l, key) : TRUE IN
         [l EXCEPT !.time = t, !.result = l.memo[i].value,
                   !.memo = SubSeq(@, 1, i - 1) \o SubSeq(@, i + 1, Len(@))
                            \o <<[@[i] EXCEPT !.used = t]>>]
    ELSE IF key \in l.absent
    THEN [l EXCEPT !.time = t, !.result = "KeyError"]
    ELSE [l EXCEPT !.time = t, !.result = "pod",
                   !.memo = (IF Len(@) = maxsize THEN Tail(@) ELSE @)
                            \o <<[key |-> key, value |-> "pod", used |-> t]>>]

CacheInit ==
    /\ clock = 0
    /\ updated_at = 0
    /\ main_pc = "consuming"
    /\ watcher = "running"
    /\ events = <<>>
    /\ redelivered = 0
    /\ stale = 0
    /\ watch_state = NoWatchState
    /\ lru = NoLru
    /\ closed = <<>>
    /\ ioloop = NoLoop
    /\ mapper = <<>>
    /\ config = CHOOSE c \in Configs : TRUE
    /\ pod_cache_type = "PodCache"
    /\ pod_cache = [u \in CacheKeys |-> "missing"]
    /\ backlog = <<>>
    /\ calls = <<>>
    /\ metrics = [handled_total |-> 0, invalid_total |-> 0,
                  backlogged_total |-> 0, published_total |-> 0,
                  expired_total |-> 0, pods_expired_total |-> 0,
                  messages_in_backlog |-> 0, pods_in_backlog |-> 0]
    /\ ndeliveries = 0
    /\ last = [op |-> "init", delivery |-> NoDelivery, user_id |-> "",
               exc |-> ""]

notCache ==
    <<config, pod_cache_type, pod_cache, backlog, calls, metrics, ndeliveries,
      last, clock, updated_at, loopVars, mapper, closed, ioloop>>

\* get of a pod that has not been looked up before.
GetFresh ==
    /\ lru.nkeys < MaxKeys
    /\ lru' = [get(lru, ToString(lru.nkeys + 1)) EXCEPT !.nkeys = @ + 1]
    /\ UNCHANGED notCache

\* get of the least recently used pod of a full memo.
GetOldest ==
    /\ Len(lru.memo) = maxsize
    /\ lru.touches < MaxTouches
    /\ lru' = [get(lru, lru.memo[1].key) EXCEPT !.touches = @ + 1]
    /\ UNCHANGED notCache

\* get of u1.
GetPod ==
    /\ lru.time < MaxEarlyLookups
    /\ lru' = get(lru, "u1")
    /\ UNCHANGED notCache

\* cache_pod_info_in_redis.py stores the pod of u1.
StorePod ==
    /\ "u1" \in lru.absent
    /\ lru' = [lru EXCEPT !.absent = @ \ {"u1"}]
    /\ UNCHANGED notCache

CacheNext == GetFresh \/ GetOldest \/ GetPod \/ StorePod

CacheSpec == CacheInit /\ [][CacheNext]_vars

\* C36, as claimed: the memo never holds more than 128 entries.
C36_MemoAtMost128 == Len(lru.memo) <= 128

\* C36, amended: the memo never holds more than 1024 entries, and an entry
\* that leaves the memo is the one whose last use lies furthest back.
C36_MemoAtMost1024Lru ==
    /\ [](Len(lru.memo) <= maxsize)
    /\ [][ \A key \in MemoKeys(lru) \ MemoKeys(lru') :
              \A i \in MemoIndex(lru, key) :
                 \A j \in 1..Len(lru.memo) :
                    lru.memo[i].used <= lru.memo[j].used ]_vars

\* The memo is full, its oldest entry was looked up again and the lookup of
\* a new pod then evicted the second oldest.
C36_Witness ==
    /\ Len(lru.memo) = maxsize
    /\ MemoIndex(lru, "1") # {}
    /\ MemoIndex(lru, "2") = {}
    /\ MemoIndex(lru, ToString(maxsize + 1)) # {}

\* C40: a lookup that misses is not memoized, so once the pod of a uid is
\* stored a sweep publishes every publishable delivery that was backlogged
\* under that uid while the lookup missed.
C40_MissThenPublished ==
    [][ ( /\ PruneStep
          /\ GivenMapping
          /\ pod_cache["u1"] = "pod"
          /\ \E i \in HeldOf(backlog, "u1") : Publishable(Held(backlog)[i]) )
        => \A i \in HeldOf(backlog, "u1") :
              Publishable(Held(backlog)[i])
                 => NumIn(calls', Held(backlog)[i].delivery_tag, "basic_publish") >= 1 ]_vars

\* C38: an interrupt while consuming ends the consume loop; the channel is
\* closed, then the connection; the deliveries held in the backlog stay
\* there, neither acked nor rejected; and from then on main() does nothing:
\* it consumes no delivery, makes no call and does not connect again.
C38_ShutdownClosesAndStops ==
    /\ [][ (main_pc = "consuming" /\ main_pc' = "exited")
              => /\ closed' = <<"channel", "connection">>
                 /\ backlog' = backlog
                 /\ calls' = calls ]_vars
    /\ [][ main_pc = "exited"
              => /\ main_pc' = "exited"
                 /\ closed' = closed
                 /\ ndeliveries' = ndeliveries
                 /\ backlog' = backlog
                 /\ calls' = calls ]_vars
    /\ [](main_pc = "exited"
             => \A i \in 1..Len(backlog) :
                   /\ NumIn(calls, Held(backlog)[i].delivery_tag, "basic_ack") = 0
                   /\ NumIn(calls, Held(backlog)[i].delivery_tag, "basic_reject") = 0)

\* main() was interrupted with a delivery in the backlog, after it had
\* rejected another.
C38_Witness ==
    /\ main_pc = "exited"
    /\ closed = <<"channel", "connection">>
    /\ Len(backlog) >= 1
    /\ \E i \in 1..Len(calls) : calls[i].call = "basic_reject"

\* ----------------------------------------------- Delivery and its thread

\* Calls of a delivery's methods, and the delivery tags they are made with.
MaxInvoked == 3
MaxTag == 2

\* The threads a method of a delivery is called on: the thread that runs
\* the connection's event loop, or another.
Threads == {"ioloop", "worker"}

\* The channel method that a method of Delivery ends in.
BasicOf(method) ==
    CASE method = "ack"    -> "basic_ack"
      [] method = "nack"   -> "basic_nack"
      [] method = "reject" -> "basic_reject"

\* connection.add_callback_threadsafe(callback).
add_callback_threadsafe(l, method, tag) ==
    [l EXCEPT !.callbacks = Append(@, [method |-> method, tag |-> tag])]

\* channel.basic_ack, basic_nack or basic_reject(delivery_tag), made on a
\* thread.
Basic(l, method, tag, thread) ==
    [l EXCEPT !.channel = Append(@, [call |-> BasicOf(method), tag |-> tag,
                                     thread |-> thread])]

\* amqp.Delivery.ack, nack and reject: the call is scheduled on the
\* connection.
amqp_Delivery(l, method, tag, thread) == add_callback_threadsafe(l, method, tag)

\* main.Delivery.ack and reject: the call is made on the channel, by the
\* caller.
main_Delivery(l, method, tag, thread) == Basic(l, method, tag, thread)

AmqpInit == CacheInit

notLoop ==
    <<config, pod_cache_type, pod_cache, backlog, calls, metrics, ndeliveries,
      last, clock, updated_at, loopVars, mapper, lru, closed>>

\* A method of a Delivery of amqp.py is called.
AmqpDeliveryCall ==
    /\ ioloop.invoked < MaxInvoked
    /\ \E method \in {"ack", "nack", "reject"}, tag \in 1..MaxTag, thread \in Threads :
          ioloop' = [amqp_Delivery(ioloop, method, tag, thread) EXCEPT !.invoked = @ + 1]
    /\ UNCHANGED notLoop

\* A method of a Delivery of main.py, the one consume_deliveries makes, is
\* called.
MainDeliveryCall ==
    /\ ioloop.invoked < MaxInvoked
    /\ \E method \in {"ack", "reject"}, tag \in 1..MaxTag, thread \in Threads :
          ioloop' = [main_Delivery(ioloop, method, tag, thread) EXCEPT !.invoked = @ + 1]
    /\ UNCHANGED notLoop

\* The event loop runs the callback scheduled first: amqp.Delivery._ack,
\* _nack or _reject.
RunCallback ==
    /\ ioloop.callbacks # <<>>
    /\ LET cb == Head(ioloop.callbacks)
       IN  ioloop' = [Basic(ioloop, cb.method, cb.tag, "ioloop")
                        EXCEPT !.callbacks = Tail(@), !.ran = @ + 1]
    /\ UNCHANGED notLoop

AmqpNext == AmqpDeliveryCall \/ MainDeliveryCall \/ RunCallback

AmqpSpec == AmqpInit /\ [][AmqpNext]_vars

\* C37: a call of ack, nack or reject makes no call on the channel and
\* schedules one callback on the connection; a callback that runs makes one
\* call on the channel, on the event loop's thread, with the tag of the
\* delivery whose method scheduled it.
C37_ScheduledOnEventLoop ==
    /\ [][ ioloop'.invoked = ioloop.invoked + 1
              => /\ ioloop'.channel = ioloop.channel
                 /\ Len(ioloop'.callbacks) = Len(ioloop.callbacks) + 1 ]_vars
    /\ [][ ioloop'.ran = ioloop.ran + 1
              => /\ Len(ioloop'.channel) = Len(ioloop.channel) + 1
                 /\ SubSeq(ioloop'.channel, 1, Len(ioloop.channel)) = ioloop.channel
                 /\ ioloop'.channel[Len(ioloop'.channel)] =
                       [call |-> BasicOf(Head(ioloop.callbacks).method),
                        tag |-> Head(ioloop.callbacks).tag,
                        thread |-> "ioloop"] ]_vars

====
